---- MODULE Spec2Model ----
(***************************************************************************)
(* Model of windscan.py: the HYSPLIT job submission workflow               *)
(* (run_hysplit_job) with its derived values, its four dependent POST      *)
(* steps and the extraction of the job identifier from step 4's response.  *)
(***************************************************************************)
EXTENDS Integers, Sequences, FiniteSets, TLC

----------------------------------------------------------------------------
(* Bounds of the checked instance *)

MaxMonth == 13          \* start_month is drawn from 0..MaxMonth
MaxDay == 32            \* start_day is drawn from 0..MaxDay
MaxFrags == 2           \* fragments in a response body
MaxQuery == 2           \* key=value pairs in the query of the final URL
MaxChunks == 2          \* chunks in the payload of the retrieval response

----------------------------------------------------------------------------
(* Values *)

JobIds == {1, 2}

\* Python's None, as a job identifier and as a session
NoneId == <<"None">>
NoneSession == 0

Digits == {"0", "1", "2", "3", "4", "5", "6", "7", "8", "9"}

DigitChar(d) == <<"0", "1", "2", "3", "4", "5", "6", "7", "8", "9">>[d + 1]

\* str.isdigit-like test for the strings matched by (\d+)
IsDigits(s) == \A i \in 1..Len(s) : s[i] \in Digits

RECURSIVE ToDec(_)
\* the decimal digits of a natural number, as format ":d" prints them
ToDec(n) == IF n < 10 THEN <<DigitChar(n)>>
            ELSE ToDec(n \div 10) \o <<DigitChar(n % 10)>>

\* f"{start_year:02d}": at least two digits, zero padded
Pad2(n) == IF n < 10 THEN <<"0">> \o ToDec(n) ELSE ToDec(n)

Abs(x) == IF x < 0 THEN -x ELSE x

\* Coordinates are integers counting 1e-7 degrees.  Format ":.6f" keeps the
\* sign (a negative value that rounds to zero prints "-0.000000") and rounds
\* the magnitude to the nearest 1e-6, ties to even.
Fmt6(x) ==
    LET m == Abs(x)
        q == m \div 10
        r == m % 10
        up == r > 5 \/ (r = 5 /\ q % 2 = 1)
    IN [neg |-> x < 0, micro |-> IF up THEN q + 1 ELSE q]

----------------------------------------------------------------------------
(* Derived values, lines 9-29 and 59-60 *)

MonthNames ==
    << <<"j","a","n">>, <<"f","e","b">>, <<"m","a","r">>, <<"a","p","r">>,
       <<"m","a","y">>, <<"j","u","n">>, <<"j","u","l">>, <<"a","u","g">>,
       <<"s","e","p">>, <<"o","c","t">>, <<"n","o","v">>, <<"d","e","c">> >>

\* What the two helpers yield when they raise ValueError
AbbrValueError == <<"ValueError">>
WeekValueError == -1

\* datetime.date(2000, month, 1) raises ValueError outside 1..12, and the
\* helper raises its own ValueError in turn
get_month_abbr(month) ==
    IF 1 <= month /\ month <= 12 THEN MonthNames[month] ELSE AbbrValueError

\* get_gdas_week_num with four buckets only: days 22-31 all in week 4
get_gdas_week_num_four(day) ==
    IF 1 <= day /\ day <= 7 THEN 1
    ELSE IF 8 <= day /\ day <= 14 THEN 2
    ELSE IF 15 <= day /\ day <= 21 THEN 3
    ELSE IF 22 <= day /\ day <= 31 THEN 4
    ELSE WeekValueError

\* get_gdas_week_num with every bucket one day late
get_gdas_week_num_late(day) ==
    IF 1 <= day /\ day <= 8 THEN 1
    ELSE IF 9 <= day /\ day <= 15 THEN 2
    ELSE IF 16 <= day /\ day <= 22 THEN 3
    ELSE IF 23 <= day /\ day <= 29 THEN 4
    ELSE IF 30 <= day /\ day <= 31 THEN 5
    ELSE WeekValueError

\* get_gdas_week_num whose first bucket starts at day 0
get_gdas_week_num_from0(day) ==
    IF 0 <= day /\ day <= 7 THEN 1
    ELSE IF 8 <= day /\ day <= 14 THEN 2
    ELSE IF 15 <= day /\ day <= 21 THEN 3
    ELSE IF 22 <= day /\ day <= 28 THEN 4
    ELSE IF 29 <= day /\ day <= 31 THEN 5
    ELSE WeekValueError

get_gdas_week_num(day) ==
    IF 1 <= day /\ day <= 7 THEN 1
    ELSE IF 8 <= day /\ day <= 14 THEN 2
    ELSE IF 15 <= day /\ day <= 21 THEN 3
    ELSE IF 22 <= day /\ day <= 28 THEN 4
    ELSE IF 29 <= day /\ day <= 31 THEN 5
    ELSE WeekValueError

\* the try block of lines 50-57 ends without a ValueError
ParamsValid(p) ==
    /\ get_month_abbr(p.start_month) # AbbrValueError
    /\ get_gdas_week_num(p.start_day) # WeekValueError

\* f"gdas1.{month_abbr}{year_str}.w{week_num}"
MfileName(p) ==
    <<"g","d","a","s","1",".">> \o get_month_abbr(p.start_month)
        \o Pad2(p.start_year) \o <<".","w">>
        \o ToDec(get_gdas_week_num(p.start_day))

----------------------------------------------------------------------------
(* Request bodies, lines 85, 106-112, 133, 155 *)

Data1 == [nsrc |-> 1, trjtype |-> 1]

lat_ns(latitude) == IF latitude >= 0 THEN "N" ELSE "S"

lon_ew(longitude) == IF longitude >= 0 THEN "E" ELSE "W"

\* abs_lat without the abs()
abs_lat_signed(latitude) == latitude

abs_lat(latitude) == Abs(latitude)

abs_lon(longitude) == Abs(longitude)

Data2(p) == [Lat |-> Fmt6(abs_lat(p.latitude)), Latns |-> lat_ns(p.latitude),
             Lon |-> Fmt6(abs_lon(p.longitude)), Lonew |-> lon_ew(p.longitude)]

Data3(p) == [mfile |-> MfileName(p)]

Data4(p) == [year |-> Pad2(p.start_year), month |-> p.start_month,
             day |-> p.start_day, hour |-> p.start_hour,
             lat |-> Fmt6(p.latitude), lon |-> Fmt6(p.longitude)]

StepData(k, p) ==
    CASE k = 1 -> Data1
      [] k = 2 -> Data2(p)
      [] k = 3 -> Data3(p)
      [] k = 4 -> Data4(p)

----------------------------------------------------------------------------
(* Responses *)

\* raise_for_status that lets client errors through
raise_for_status_5xx(status) == 500 <= status /\ status < 600

\* raise_for_status raises HTTPError for 400 <= status < 600 only
raise_for_status(status) == 400 <= status /\ status < 600

\* Response.__bool__ is Response.ok: raise_for_status would not raise
ResponseOk(resp) == ~raise_for_status(resp.status)

\* A body is a sequence of fragments: a meta-refresh tag or an anchor tag
\* pointing at /hypub-bin/trajresults.pl?jobidno=<val>", or other text.
\* The empty sequence is the empty string.
TagVals == {<<"7">>, <<"4", "2">>, <<"1", "a">>}

Frags == [kind : {"meta", "anchor"}, val : TagVals]
            \cup {[kind |-> "text", val |-> <<>>]}

SeqsUpTo(S, n) == UNION {[1..k -> S] : k \in 0..n}

Bodies == SeqsUpTo(Frags, MaxFrags)

\* The query of the final URL is a sequence of key=value pairs
QueryVals == {<<>>, <<"7">>, <<"1", "a">>}

QueryPairs == [key : {"jobidno"}, val : QueryVals]
                 \cup {[key |-> "other", val |-> <<"7">>]}

Queries == SeqsUpTo(QueryPairs, MaxQuery)

\* jobidno=(\d+)" : one or more digits directly followed by the closing quote
TagMatches(frag, kind) ==
    frag.kind = kind /\ Len(frag.val) > 0 /\ IsDigits(frag.val)

\* re.search returns the leftmost match; its group(1), or None
SearchTag(text, kind) ==
    LET hits == {i \in 1..Len(text) : TagMatches(text[i], kind)}
    IN IF hits = {} THEN NoneId
       ELSE text[CHOOSE i \in hits : \A h \in hits : i <= h].val

\* parse_qs with keep_blank_values=True
parse_qs_keep_blank(query, key) ==
    LET Keep(pair) == pair.key = key
        kept == SelectSeq(query, Keep)
    IN [i \in 1..Len(kept) |-> kept[i].val]

\* parse_qs(query)[key]: the values of key in order, blank values dropped
\* (keep_blank_values is False); the key is absent when none is left
parse_qs(query, key) ==
    LET Keep(pair) == pair.key = key /\ pair.val # <<>>
        kept == SelectSeq(query, Keep)
    IN [i \in 1..Len(kept) |-> kept[i].val]

\* The extraction with the anchor pattern tried before the meta pattern
ExtractJobIdAnchorFirst(resp) ==
    IF ResponseOk(resp) /\ resp.text # <<>> THEN
        LET meta_match == SearchTag(resp.text, "meta")
            anchor_match == SearchTag(resp.text, "anchor")
            query_params == parse_qs(resp.url, "jobidno")
        IN IF anchor_match # NoneId THEN
               [job_id |-> anchor_match, msg |-> "Found job ID in link"]
           ELSE IF meta_match # NoneId THEN
               [job_id |-> meta_match, msg |-> "Found job ID in meta refresh"]
           ELSE IF query_params # <<>> THEN
               [job_id |-> query_params[1], msg |-> "Found job ID in final URL"]
           ELSE [job_id |-> NoneId, msg |-> "Could not find job ID"]
    ELSE [job_id |-> NoneId, msg |-> "No response content received"]

\* Lines 170-198: the identifier and the message printed
ExtractJobId(resp) ==
    IF ResponseOk(resp) /\ resp.text # <<>> THEN
        LET meta_match == SearchTag(resp.text, "meta")
            anchor_match == SearchTag(resp.text, "anchor")
            query_params == parse_qs(resp.url, "jobidno")
        IN IF meta_match # NoneId THEN
               [job_id |-> meta_match, msg |-> "Found job ID in meta refresh"]
           ELSE IF anchor_match # NoneId THEN
               [job_id |-> anchor_match, msg |-> "Found job ID in link"]
           ELSE IF query_params # <<>> THEN
               [job_id |-> query_params[1], msg |-> "Found job ID in final URL"]
           ELSE [job_id |-> NoneId, msg |-> "Could not find job ID"]
    ELSE [job_id |-> NoneId, msg |-> "No response content received"]

----------------------------------------------------------------------------
(* Inputs *)

DefaultParams ==
    [latitude |-> 419800000, longitude |-> -879000000,
     start_year |-> 22, start_month |-> 10, start_day |-> 29, start_hour |-> 22]

Years == {5, 22}

\* <<latitude, longitude>> in units of 1e-7 degrees
Coords == {<<419800000, -879000000>>, <<0, 0>>, <<-4, 4>>,
           <<-338688006, 1512093007>>}

\* Each argument varied over its whole range around the defaults, and the
\* corners where month and day are both out of range.
ParamSet ==
    {[DefaultParams EXCEPT !.start_month = m] : m \in 0..MaxMonth}
    \cup {[DefaultParams EXCEPT !.start_day = d] : d \in 0..MaxDay}
    \cup {[DefaultParams EXCEPT !.start_month = m, !.start_day = d] :
              m \in {0, MaxMonth}, d \in {0, MaxDay}}
    \cup {[DefaultParams EXCEPT !.start_year = y] : y \in Years}
    \cup {[DefaultParams EXCEPT !.latitude = c[1], !.longitude = c[2]] :
              c \in Coords}

Statuses == {200, 304, 404, 500}

\* Statuses that raise_for_status lets through
PassingStatuses == {s \in Statuses : ~raise_for_status(s)}

NoReply == [status |-> 0, text |-> <<>>, url |-> <<>>]

\* Responses of steps 1-3: only the status is looked at
StepReplies == {[status |-> s, text |-> <<>>, url |-> <<>>] : s \in Statuses}

\* Responses of step 4: every body and final URL with a passing status, and
\* the error statuses, whose body is never read
SubmissionReplies ==
    [status : PassingStatuses, text : Bodies, url : Queries]
    \cup {r \in StepReplies : raise_for_status(r.status)}

\* A few responses of step 4, one for each way the extraction can end
FewSubmissionReplies ==
    [status : {200, 404},
     text : {<<>>, <<[kind |-> "text", val |-> <<>>]>>,
             <<[kind |-> "meta", val |-> <<"7">>]>>},
     url : {<<>>, <<[key |-> "jobidno", val |-> <<"7">>]>>}]

\* Reduced inputs, as for two invocations side by side
PairParamSet == {DefaultParams, [DefaultParams EXCEPT !.start_month = 0]}

PairStepReplies == {r \in StepReplies : r.status \in {200, 404}}

PairSubmissionReplies == {r \in FewSubmissionReplies : r.url = <<>>}

----------------------------------------------------------------------------
(* download_results: names, files, responses *)

\* not job_id: None and the empty string are falsy
Falsy(job_id) == job_id = NoneId \/ job_id = <<>>

\* f"gis_{job_id}.zip", the destination in the working directory
download_filename(job_id) == <<"gis_">> \o job_id \o <<".zip">>

\* f"https://www.ready.noaa.gov/hypubout/gis_{job_id}.zip"
download_url(job_id) == <<"/hypubout/">> \o download_filename(job_id)

\* The identifiers a submission can return, and the destinations they name
ReturnableIds == {v \in TagVals \cup QueryVals : v # <<>>}

FileNames == {download_filename(v) : v \in ReturnableIds}

\* A file: absent, or present with its chunks
AbsentFile == [exists |-> FALSE, data |-> <<>>]

OldFile == [exists |-> TRUE, data |-> <<"old">>]

\* open(download_filename, 'wb'): created or truncated
OpenedFile == [exists |-> TRUE, data |-> <<>>]

\* f.write(chunk) through a handle standing at offset pos: the chunk lands at
\* the handle's offset, whatever the file holds by then
WriteAt(file, pos, chunk) ==
    LET n == IF Len(file.data) > pos + 1 THEN Len(file.data) ELSE pos + 1
    IN [exists |-> TRUE,
        data |-> [i \in 1..n |->
                    IF i = pos + 1 THEN chunk
                    ELSE IF i <= Len(file.data) THEN file.data[i]
                    ELSE "hole"]]

\* The payload of a response: its chunks, as response.raw delivers them
Payload(n) == [i \in 1..n |-> DigitChar(i)]

Payloads == {Payload(n) : n \in 0..MaxChunks}

\* response.headers.get('content-type', ''): "" when the header is absent
ContentTypes == {"application/zip", "Application/Zip",
                 "application/octet-stream", "text/html", ""}

\* str.lower()
Lower(content_type) ==
    IF content_type = "Application/Zip" THEN "application/zip" ELSE content_type

\* The content-type check that stops on an unexpected type
ContentTypeCheckStrict(header) ==
    LET content_type == Lower(header)
        unexpected == /\ content_type # "application/zip"
                      /\ content_type # "application/octet-stream"
    IN [warning |-> unexpected, proceed |-> ~unexpected]

\* Lines 233-238: an unexpected content type prints a warning; the download
\* proceeds in either case
ContentTypeCheck(header) ==
    LET content_type == Lower(header)
        unexpected == /\ content_type # "application/zip"
                      /\ content_type # "application/octet-stream"
    IN [warning |-> unexpected, proceed |-> TRUE]

NoResponse == [status |-> 0, ctype |-> "", payload |-> <<>>]

\* Responses of the retrieval GET: every content type and payload with a
\* passing status, and the error statuses, whose body is never read
RetrievalReplies ==
    [status : PassingStatuses, ctype : ContentTypes, payload : Payloads]
    \cup {[status |-> st, ctype |-> "text/html", payload |-> <<>>] :
              st \in {x \in Statuses : raise_for_status(x)}}

\* A few responses of the retrieval GET
FewRetrievalReplies ==
    {[status |-> 200, ctype |-> "application/zip", payload |-> Payload(1)],
     [status |-> 404, ctype |-> "text/html", payload |-> <<>>]}

\* download_results returned None
NonePath == <<"None">>

----------------------------------------------------------------------------
(* State *)

VARIABLES
    scope,          \* which inputs the run enumerates in full
    jobs,           \* the invocations of run_hysplit_job in this run
    pc,             \* pc[j]: where invocation j stands
    step,           \* step[j]: the step being sent or awaited, 0 before step 1
    params,         \* params[j]: the arguments of the invocation
    session,        \* session[j]: the requests.Session created at line 47
    nextSession,    \* identity of the next Session object to be created
    sent,           \* sent[j]: the requests the invocation issued, in order
    replies,        \* replies[j]: <<step, status>> of each finished request
    job_submission_response,    \* the response of step 4
    result,         \* result[j]: the returned tuple, once pc[j] = "done"
    printed         \* printed[j]: the last outcome message printed

VARIABLES
    existing,       \* whether the destination files exist before the run
    fs,             \* fs[name]: the file of that name in the working directory
    dpc,            \* dpc[j]: where the download_results call of j stands
    args,           \* args[j]: the job_id and session passed to download_results
    events,         \* events[j]: the sleeps and GETs of the call, in order
    response,       \* response[j]: the response of the retrieval GET
    copied,         \* copied[j]: chunks written, the offset of the open file
    downloaded,     \* downloaded[j]: what download_results returned
    warned          \* warned[j]: the content-type warning was printed

\* The state of run_hysplit_job
svars == <<scope, jobs, pc, step, params, session, nextSession, sent, replies,
           job_submission_response, result, printed>>

\* The state of download_results
dvars == <<existing, fs, dpc, args, events, response, copied, downloaded,
           warned>>

vars == <<scope, jobs, pc, step, params, session, nextSession, sent, replies,
          job_submission_response, result, printed, existing, fs, dpc, args,
          events, response, copied, downloaded, warned>>

InitWith(sc, J) ==
    /\ scope = sc
    /\ jobs = J
    /\ pc = [j \in JobIds |-> IF j \in J THEN "start" ELSE "idle"]
    /\ step = [j \in JobIds |-> 0]
    /\ params = [j \in JobIds |-> DefaultParams]
    /\ session = [j \in JobIds |-> NoneSession]
    /\ nextSession = 1
    /\ sent = [j \in JobIds |-> <<>>]
    /\ replies = [j \in JobIds |-> <<>>]
    /\ job_submission_response = [j \in JobIds |-> NoReply]
    /\ result = [j \in JobIds |-> [job_id |-> NoneId, session |-> NoneSession]]
    /\ printed = [j \in JobIds |-> [msg |-> "", step |-> 0]]
    /\ existing \in (IF sc = "download" THEN BOOLEAN ELSE {FALSE})
    /\ fs = [f \in FileNames |-> IF existing THEN OldFile ELSE AbsentFile]
    /\ dpc = [j \in JobIds |-> "none"]
    /\ args = [j \in JobIds |-> [job_id |-> NoneId, session |-> NoneSession]]
    /\ events = [j \in JobIds |-> <<>>]
    /\ response = [j \in JobIds |-> NoResponse]
    /\ copied = [j \in JobIds |-> 0]
    /\ downloaded = [j \in JobIds |-> NonePath]
    /\ warned = [j \in JobIds |-> FALSE]

\* One invocation, every argument
Init == InitWith("workflow", {1})

\* One invocation with the default arguments, every response of step 4
InitExtract == InitWith("extraction", {1})

\* Two invocations
InitPair == InitWith("pair", {1, 2})

\* One invocation with the default arguments, every call of download_results
InitDownload == InitWith("download", {1})

ParamChoices ==
    CASE scope = "workflow" -> ParamSet
      [] scope = "extraction" -> {DefaultParams}
      [] scope = "pair" -> PairParamSet
      [] scope = "download" -> {DefaultParams}

\* Every status of steps 1-3 where the workflow is enumerated, one passing
\* and one failing status elsewhere
StepChoices ==
    IF scope = "workflow" THEN StepReplies ELSE PairStepReplies

SubmissionChoices ==
    CASE scope = "workflow" -> FewSubmissionReplies
      [] scope = "extraction" -> SubmissionReplies
      [] scope = "pair" -> PairSubmissionReplies
      [] scope = "download" -> FewSubmissionReplies

RetrievalChoices ==
    IF scope = "download" THEN RetrievalReplies ELSE FewRetrievalReplies

----------------------------------------------------------------------------
(* run_hysplit_job *)

\* A failure return that hands the session back
ReturnNoneWithSession(j, msg, k) ==
    /\ result' = [result EXCEPT ![j] = [job_id |-> NoneId, session |-> session[j]]]
    /\ printed' = [printed EXCEPT ![j] = [msg |-> msg, step |-> k]]
    /\ pc' = [pc EXCEPT ![j] = "done"]

\* A failed step that is sent again instead of returning
ReturnNoneRetry(j, msg, k) ==
    /\ result' = [result EXCEPT ![j] = [job_id |-> NoneId, session |-> NoneSession]]
    /\ printed' = [printed EXCEPT ![j] = [msg |-> msg, step |-> k]]
    /\ pc' = [pc EXCEPT ![j] = IF k = 0 THEN "done" ELSE "send"]

\* "return None, None" after printing msg
ReturnNone(j, msg, k) ==
    /\ result' = [result EXCEPT ![j] = [job_id |-> NoneId, session |-> NoneSession]]
    /\ printed' = [printed EXCEPT ![j] = [msg |-> msg, step |-> k]]
    /\ pc' = [pc EXCEPT ![j] = "done"]

\* AfterStep with the try block of the following step left out
AfterStepSkipping(k) == IF k < 3 THEN [pc |-> "send", step |-> k + 2]
                        ELSE [pc |-> "extract", step |-> k]

\* Where a step's try block leaves the invocation when nothing was raised
AfterStep(k) == IF k < 4 THEN [pc |-> "send", step |-> k + 1]
                ELSE [pc |-> "extract", step |-> k]

\* Invoke on one session shared by all invocations
InvokeSharedSession(j) ==
    /\ pc[j] = "start"
    /\ \E p \in ParamChoices :
        /\ params' = [params EXCEPT ![j] = p]
        /\ session' = [session EXCEPT ![j] = 1]
        /\ nextSession' = nextSession
        /\ IF ParamsValid(p)
           THEN /\ pc' = [pc EXCEPT ![j] = "send"]
                /\ step' = [step EXCEPT ![j] = 1]
                /\ UNCHANGED <<result, printed>>
           ELSE /\ ReturnNone(j, "Input validation error", 0)
                /\ UNCHANGED step
    /\ UNCHANGED <<scope, jobs, sent, replies, job_submission_response>>
    /\ UNCHANGED dvars

\* Lines 47-60: create the session, validate, derive the file name
Invoke(j) ==
    /\ pc[j] = "start"
    /\ \E p \in ParamChoices :
        /\ params' = [params EXCEPT ![j] = p]
        /\ session' = [session EXCEPT ![j] = nextSession]
        /\ nextSession' = nextSession + 1
        /\ IF ParamsValid(p)
           THEN /\ pc' = [pc EXCEPT ![j] = "send"]
                /\ step' = [step EXCEPT ![j] = 1]
                /\ UNCHANGED <<result, printed>>
           ELSE /\ ReturnNone(j, "Input validation error", 0)
                /\ UNCHANGED step
    /\ UNCHANGED <<scope, jobs, sent, replies, job_submission_response>>
    /\ UNCHANGED dvars

\* session.post(url_k, headers_k, data_k) goes out: lines 88, 115, 136, 159
Post(j) ==
    /\ pc[j] = "send"
    /\ sent' = [sent EXCEPT ![j] = Append(@,
                   [session |-> session[j], step |-> step[j],
                    data |-> StepData(step[j], params[j])])]
    /\ pc' = [pc EXCEPT ![j] = "wait"]
    /\ UNCHANGED <<scope, jobs, step, params, session, nextSession, replies,
                   job_submission_response, result, printed>>
    /\ UNCHANGED dvars

\* session.post raises a RequestException without a response (connection
\* error, too many redirects, ...): the except clause of the step
TransportFailure(j) ==
    /\ pc[j] = "wait"
    /\ replies' = [replies EXCEPT ![j] = Append(@, <<step[j], 0>>)]
    /\ ReturnNone(j, "Error during step", step[j])
    /\ UNCHANGED <<scope, jobs, step, params, session, nextSession, sent,
                   job_submission_response>>
    /\ UNCHANGED dvars

\* session.post returns a response; raise_for_status decides
Respond(j, resp) ==
    /\ replies' = [replies EXCEPT ![j] = Append(@, <<step[j], resp.status>>)]
    /\ IF raise_for_status(resp.status)
       THEN /\ ReturnNone(j, "Error during step", step[j])
            /\ UNCHANGED <<step, job_submission_response>>
       ELSE /\ pc' = [pc EXCEPT ![j] = AfterStep(step[j]).pc]
            /\ step' = [step EXCEPT ![j] = AfterStep(step[j]).step]
            /\ job_submission_response' =
                 IF step[j] = 4
                 THEN [job_submission_response EXCEPT ![j] = resp]
                 ELSE job_submission_response
            /\ UNCHANGED <<result, printed>>
    /\ UNCHANGED <<scope, jobs, params, session, nextSession, sent>>
    /\ UNCHANGED dvars

\* The response of one of steps 1-3 arrives
StepResponse(j) ==
    /\ pc[j] = "wait"
    /\ step[j] < 4
    /\ \E resp \in StepChoices : Respond(j, resp)

\* The response of step 4 arrives
SubmissionResponse(j) ==
    /\ pc[j] = "wait"
    /\ step[j] = 4
    /\ \E resp \in SubmissionChoices : Respond(j, resp)

\* Extract returning the identifier without the session
ExtractDroppingSession(j) ==
    /\ pc[j] = "extract"
    /\ LET found == ExtractJobId(job_submission_response[j])
       IN /\ printed' = [printed EXCEPT ![j] = [msg |-> found.msg, step |-> 0]]
          /\ result' = [result EXCEPT ![j] =
                [job_id |-> found.job_id, session |-> NoneSession]]
    /\ pc' = [pc EXCEPT ![j] = "done"]
    /\ UNCHANGED <<scope, jobs, step, params, session, nextSession, sent, replies,
                   job_submission_response>>
    /\ UNCHANGED dvars

\* Lines 168-201: extract the identifier and return
Extract(j) ==
    /\ pc[j] = "extract"
    /\ LET found == ExtractJobId(job_submission_response[j])
       IN /\ printed' = [printed EXCEPT ![j] = [msg |-> found.msg, step |-> 0]]
          /\ result' = [result EXCEPT ![j] =
                IF found.job_id = NoneId
                THEN [job_id |-> NoneId, session |-> NoneSession]
                ELSE [job_id |-> found.job_id, session |-> session[j]]]
    /\ pc' = [pc EXCEPT ![j] = "done"]
    /\ UNCHANGED <<scope, jobs, step, params, session, nextSession, sent, replies,
                   job_submission_response>>
    /\ UNCHANGED dvars

----------------------------------------------------------------------------
(* The caller and download_results *)

\* if job_id and session (lines 214 and 267); a Session object is truthy
Usable(a) == ~Falsy(a.job_id) /\ a.session # NoneSession

\* What the caller passes to download_results.  __main__ passes the result
\* of a successful submission (lines 266-272); other callers of the function
\* may pass a missing identifier or session.
ArgChoices(j) ==
    IF scope = "download"
    THEN [job_id : {result[j].job_id, <<>>},
          session : {result[j].session, NoneSession}]
    ELSE {a \in {result[j]} : Usable(a)}

\* The guard of lines 214-216 with the wait of line 222 left out
AfterCallNoWait(a) == IF ~Usable(a) THEN "returned" ELSE "get"

\* Lines 214-222 without the guard
AfterCallUnguarded(a) == "sleep"

\* Lines 214-222: return None at once, or go on to the wait
AfterCall(a) == IF ~Usable(a) THEN "returned" ELSE "sleep"

\* download_results(job_id, session) is called
CallDownload(j) ==
    /\ pc[j] = "done"
    /\ dpc[j] = "none"
    /\ \E a \in ArgChoices(j) :
        /\ args' = [args EXCEPT ![j] = a]
        /\ dpc' = [dpc EXCEPT ![j] = AfterCall(a)]
    /\ UNCHANGED <<existing, fs, events, response, copied, downloaded, warned>>
    /\ UNCHANGED svars

\* Lines 277-278: __main__ does not call download_results
SubmissionFailedExit(j) ==
    /\ pc[j] = "done"
    /\ dpc[j] = "none"
    /\ ~Usable(result[j])
    /\ dpc' = [dpc EXCEPT ![j] = "skipped"]
    /\ UNCHANGED <<existing, fs, args, events, response, copied, downloaded,
                   warned>>
    /\ UNCHANGED svars

\* time.sleep(10) of line 222 is over
Sleep(j) ==
    /\ dpc[j] = "sleep"
    /\ events' = [events EXCEPT ![j] = Append(@,
                     [ev |-> "sleep", session |-> NoneSession, url |-> <<>>])]
    /\ dpc' = [dpc EXCEPT ![j] = "get"]
    /\ UNCHANGED <<existing, fs, args, response, copied, downloaded, warned>>
    /\ UNCHANGED svars

\* session.get(download_url, stream=True, allow_redirects=True) goes out
Get(j) ==
    /\ dpc[j] = "get"
    /\ events' = [events EXCEPT ![j] = Append(@,
                     [ev |-> "get", session |-> args[j].session,
                      url |-> download_url(args[j].job_id)])]
    /\ dpc' = [dpc EXCEPT ![j] = "wait"]
    /\ UNCHANGED <<existing, fs, args, response, copied, downloaded, warned>>
    /\ UNCHANGED svars

\* "return None" of lines 255 and 258
ReturnNonePath(j) ==
    /\ downloaded' = [downloaded EXCEPT ![j] = NonePath]
    /\ dpc' = [dpc EXCEPT ![j] = "returned"]

\* session.get raises a RequestException without a response: lines 248-255
GetTransportFailure(j) ==
    /\ dpc[j] = "wait"
    /\ ReturnNonePath(j)
    /\ UNCHANGED <<existing, fs, args, events, response, copied, warned>>
    /\ UNCHANGED svars

\* Lines 229-241: the response arrives; raise_for_status, the content-type
\* check, and open(download_filename, 'wb')
GetResponse(j) ==
    /\ dpc[j] = "wait"
    /\ \E resp \in RetrievalChoices :
        /\ response' = [response EXCEPT ![j] = resp]
        /\ IF raise_for_status(resp.status)
           THEN /\ ReturnNonePath(j)
                /\ UNCHANGED <<fs, copied, warned>>
           ELSE LET check == ContentTypeCheck(resp.ctype)
                    name == download_filename(args[j].job_id)
                IN /\ warned' = [warned EXCEPT ![j] = check.warning]
                   /\ IF check.proceed
                      THEN /\ fs' = [fs EXCEPT ![name] = OpenedFile]
                           /\ copied' = [copied EXCEPT ![j] = 0]
                           /\ dpc' = [dpc EXCEPT ![j] = "copy"]
                           /\ UNCHANGED downloaded
                      ELSE /\ ReturnNonePath(j)
                           /\ UNCHANGED <<fs, copied>>
    /\ UNCHANGED <<existing, args, events>>
    /\ UNCHANGED svars

\* shutil.copyfileobj(response.raw, f) reads the next chunk and writes it
CopyChunk(j) ==
    /\ dpc[j] = "copy"
    /\ copied[j] < Len(response[j].payload)
    /\ LET name == download_filename(args[j].job_id)
       IN fs' = [fs EXCEPT ![name] =
                    WriteAt(@, copied[j], response[j].payload[copied[j] + 1])]
    /\ copied' = [copied EXCEPT ![j] = @ + 1]
    /\ UNCHANGED <<existing, dpc, args, events, response, downloaded, warned>>
    /\ UNCHANGED svars

\* The stream breaks before the payload is complete: response.raw.read
\* raises, the with block closes the file, lines 256-258 return None
StreamInterrupted(j) ==
    /\ dpc[j] = "copy"
    /\ copied[j] < Len(response[j].payload)
    /\ ReturnNonePath(j)
    /\ UNCHANGED <<existing, fs, args, events, response, copied, warned>>
    /\ UNCHANGED svars

\* The stream is at its end: lines 245-246 return the file name
FinishCopy(j) ==
    /\ dpc[j] = "copy"
    /\ copied[j] = Len(response[j].payload)
    /\ downloaded' = [downloaded EXCEPT ![j] = download_filename(args[j].job_id)]
    /\ dpc' = [dpc EXCEPT ![j] = "returned"]
    /\ UNCHANGED <<existing, fs, args, events, response, copied, warned>>
    /\ UNCHANGED svars

----------------------------------------------------------------------------
(* Specifications *)

Next ==
    \E j \in jobs :
        \/ Invoke(j)
        \/ Post(j)
        \/ TransportFailure(j)
        \/ StepResponse(j)
        \/ SubmissionResponse(j)
        \/ Extract(j)
        \/ CallDownload(j)
        \/ SubmissionFailedExit(j)
        \/ Sleep(j)
        \/ Get(j)
        \/ GetTransportFailure(j)
        \/ GetResponse(j)
        \/ CopyChunk(j)
        \/ StreamInterrupted(j)
        \/ FinishCopy(j)

Spec == Init /\ [][Next]_vars

SpecExtract == InitExtract /\ [][Next]_vars

SpecPair == InitPair /\ [][Next]_vars

SpecDownload == InitDownload /\ [][Next]_vars

\* The steps the program takes by itself: they need no answer from the
\* remote service, and the single thread of control always takes them
ProgramStep(j) ==
    \/ Invoke(j)
    \/ Post(j)
    \/ Extract(j)
    \/ CallDownload(j)
    \/ SubmissionFailedExit(j)
    \/ Sleep(j)
    \/ Get(j)
    \/ FinishCopy(j)

\* The program keeps running; the remote service owes no answer
SpecLive ==
    /\ InitDownload
    /\ [][Next]_vars
    /\ \A j \in JobIds : WF_vars(ProgramStep(j))

----------------------------------------------------------------------------
(* Reading the state *)

NoneNone == [job_id |-> NoneId, session |-> NoneSession]

Returned(j) == pc[j] = "done"

Failed(j) == Returned(j) /\ result[j] = NoneNone

\* The steps of the requests invocation j has issued, in order
SentSteps(j) == [i \in 1..Len(sent[j]) |-> sent[j][i].step]

\* Invocation j issued the request of step k
Issued(j, k) == \E i \in 1..Len(sent[j]) : sent[j][i].step = k

\* The request of step k, when issued
Request(j, k) == sent[j][CHOOSE i \in 1..Len(sent[j]) : sent[j][i].step = k]

\* The status step k ended with; 0 when no response came (transport failure)
Answered(j, k) == \E i \in 1..Len(replies[j]) : replies[j][i][1] = k

StatusOf(j, k) ==
    replies[j][CHOOSE i \in 1..Len(replies[j]) : replies[j][i][1] = k][2]

\* Step k's response arrived and carried no error status
Succeeded(j, k) ==
    Answered(j, k) /\ StatusOf(j, k) >= 200 /\ StatusOf(j, k) < 400

ExtractionMessages ==
    {"Found job ID in meta refresh", "Found job ID in link",
     "Found job ID in final URL", "Could not find job ID",
     "No response content received"}

\* The extraction of lines 168-198 has run
Extracted(j) == Returned(j) /\ printed[j].msg \in ExtractionMessages

\* How far invocation j has come
Rank(j) ==
    CASE pc[j] \in {"idle", "start"} -> 0
      [] pc[j] = "send" -> 2 * step[j] - 1
      [] pc[j] = "wait" -> 2 * step[j]
      [] pc[j] = "extract" -> 9
      [] pc[j] = "done" -> 10

----------------------------------------------------------------------------
(* C1 *)

StepsInOrder(j) ==
    /\ Len(sent[j]) <= 4
    /\ \A i \in 1..Len(sent[j]) :
          /\ sent[j][i].step = i
          /\ sent[j][i].session = session[j]
          /\ i > 1 => Succeeded(j, i - 1)
    /\ (pc[j] = "extract" \/ Extracted(j)) =>
          /\ SentSteps(j) = <<1, 2, 3, 4>>
          /\ Succeeded(j, 4)

\* C1: the requests of an invocation go out in the order step 1, 2, 3, 4 on
\* the session the invocation created, the request of step k only after the
\* response of step k-1 arrived without an error status, the extraction only
\* after step 4 succeeded, and the invocation never moves back to an earlier
\* point.
C1_StepsSerial ==
    /\ [](\A j \in jobs : StepsInOrder(j))
    /\ [][\A j \in jobs : Rank(j)' >= Rank(j)]_vars

C1_Witness ==
    /\ Extracted(1)
    /\ result[1].job_id # NoneId
    /\ SentSteps(1) = <<1, 2, 3, 4>>

----------------------------------------------------------------------------
(* C2 *)

\* Step k ended the invocation: it returned (None, None) and issued nothing
\* after the request of step k
EndedAt(j, k) ==
    /\ Failed(j)
    /\ Len(sent[j]) = k
    /\ \A i \in 1..Len(sent[j]) : sent[j][i].step <= k

\* C2 as stated: a step that ends in a transport failure or a non-2xx status
\* ends the submission in the failed outcome with no request to a later step.
C2_Non2xxAborts ==
    \A j \in jobs : \A k \in 1..4 :
        (Answered(j, k) /\ ~(StatusOf(j, k) \in 200..299)) => EndedAt(j, k)

\* C2 amended: a step that ends in a transport failure or a 4xx/5xx status
\* ends the submission in the failed outcome with no request to a later step.
C2_ErrorStatusAborts ==
    \A j \in jobs : \A k \in 1..4 :
        (Answered(j, k) /\ (StatusOf(j, k) = 0 \/ StatusOf(j, k) \in 400..599))
            => EndedAt(j, k)

C2_Witness ==
    /\ Answered(1, 2)
    /\ StatusOf(1, 2) = 404
    /\ EndedAt(1, 2)

----------------------------------------------------------------------------
(* C3 *)

\* C3: with start_month outside 1..12 or start_day outside 1..31 the
\* invocation returns (None, None) and has issued no request.
C3_InvalidParamsNoRequest ==
    \A j \in jobs :
        (/\ pc[j] # "start"
         /\ \/ ~(params[j].start_month \in 1..12)
            \/ ~(params[j].start_day \in 1..31))
        => (Failed(j) /\ sent[j] = <<>> /\ replies[j] = <<>>)

C3_Witness ==
    /\ Failed(1)
    /\ params[1].start_month \in 1..12
    /\ params[1].start_day = 0
    /\ sent[1] = <<>>

----------------------------------------------------------------------------
(* C4 *)

\* The kind of outcome, as the printed message names it
Kind(j) ==
    CASE printed[j].msg = "Input validation error" -> <<"InvalidParameters", 0>>
      [] printed[j].msg = "Error during step" -> <<"StepFailed", printed[j].step>>
      [] printed[j].msg \in {"Could not find job ID", "No response content received"}
            -> <<"IdentifierNotFound", 0>>
      [] OTHER -> <<"Success", 0>>

FailureKind(j) == Returned(j) /\ Kind(j)[1] # "Success"

\* C4 as stated: two submissions that fail in different ways (invalid
\* parameters, a failed step with its number, no identifier found) return
\* different values, so the returned value tells the failures apart.
C4_FailuresDistinct ==
    \A j \in jobs : \A k \in jobs :
        (FailureKind(j) /\ FailureKind(k) /\ Kind(j) # Kind(k))
            => result[j] # result[k]

\* C4 amended: every failure returns the one value (None, None), which no
\* successful submission returns; the returned value tells failure from
\* success, the kinds of failure differ in the printed message only.
C4_FailuresReturnNoneNone ==
    \A j \in jobs :
        Returned(j) =>
            /\ FailureKind(j) <=> (result[j] = NoneNone)
            /\ ~FailureKind(j) =>
                  (result[j].job_id # NoneId /\ result[j].session # NoneSession)

C4_Witness ==
    /\ FailureKind(1) /\ FailureKind(2)
    /\ Kind(1) = <<"InvalidParameters", 0>>
    /\ Kind(2) = <<"StepFailed", 2>>
    /\ result[1] = result[2]

----------------------------------------------------------------------------
(* C5, C6, C7 *)

MetaId(resp) == SearchTag(resp.text, "meta")

AnchorId(resp) == SearchTag(resp.text, "anchor")

\* The positions of the jobidno parameters of the final URL with a value
JobIdParams(resp) ==
    {i \in 1..Len(resp.url) :
        resp.url[i].key = "jobidno" /\ resp.url[i].val # <<>>}

\* The value of the first of them
UrlId(resp) ==
    IF JobIdParams(resp) = {} THEN NoneId
    ELSE resp.url[CHOOSE i \in JobIdParams(resp) :
                      \A h \in JobIdParams(resp) : i <= h].val

\* First match in the order meta-refresh, anchor, final URL
FirstMatch(resp) ==
    IF MetaId(resp) # NoneId THEN MetaId(resp)
    ELSE IF AnchorId(resp) # NoneId THEN AnchorId(resp)
    ELSE UrlId(resp)

\* C5 as stated: the result of the extraction is the first match in the
\* order meta-refresh, anchor, jobidno parameter of the final URL, and the
\* submission fails when none matches.
C5_FirstMatchDecides ==
    \A j \in jobs :
        Extracted(j) =>
            /\ result[j].job_id = FirstMatch(job_submission_response[j])
            /\ result[j].job_id = NoneId => result[j] = NoneNone

\* C5 amended: on a non-empty body the result of the extraction is the first
\* match in the order meta-refresh, anchor, jobidno parameter of the final
\* URL, and the submission fails when none matches; on an empty body no
\* strategy is tried and the submission fails.
C5_FirstMatchOnNonEmptyBody ==
    \A j \in jobs :
        Extracted(j) =>
            /\ result[j].job_id =
                  IF job_submission_response[j].text = <<>> THEN NoneId
                  ELSE FirstMatch(job_submission_response[j])
            /\ result[j].job_id = NoneId => result[j] = NoneNone

C5_Witness ==
    /\ Extracted(1)
    /\ MetaId(job_submission_response[1]) = <<"7">>
    /\ AnchorId(job_submission_response[1]) = <<"4", "2">>
    /\ JobIdParams(job_submission_response[1]) # {}
    /\ result[1].job_id = <<"7">>

\* C6 as stated: a successful step-4 response whose body (empty or not)
\* matches neither pattern and whose final URL carries a jobidno parameter
\* makes the invocation return that parameter's value.
C6_UrlFallbackAnyBody ==
    \A j \in jobs :
        LET resp == job_submission_response[j]
        IN (/\ Extracted(j)
            /\ MetaId(resp) = NoneId
            /\ AnchorId(resp) = NoneId
            /\ \E i \in 1..Len(resp.url) : resp.url[i].key = "jobidno")
           => \E i \in 1..Len(resp.url) :
                 /\ resp.url[i].key = "jobidno"
                 /\ result[j].job_id = resp.url[i].val

\* C6 amended: a successful step-4 response whose non-empty body matches
\* neither pattern and whose final URL carries a jobidno parameter with a
\* non-empty value makes the invocation return the first such value, with
\* the session.
C6_UrlFallbackNonEmptyBody ==
    \A j \in jobs :
        LET resp == job_submission_response[j]
        IN (/\ Extracted(j)
            /\ resp.text # <<>>
            /\ MetaId(resp) = NoneId
            /\ AnchorId(resp) = NoneId
            /\ JobIdParams(resp) # {})
           => (result[j].job_id = UrlId(resp) /\ result[j].session = session[j])

C6_Witness ==
    /\ Extracted(1)
    /\ job_submission_response[1].text = <<[kind |-> "anchor", val |-> <<"1", "a">>]>>
    /\ job_submission_response[1].url =
          <<[key |-> "jobidno", val |-> <<>>], [key |-> "jobidno", val |-> <<"7">>]>>
    /\ result[1].job_id = <<"7">>

\* C7: a returned job identifier is a non-empty string of decimal digits.
C7_IdentifierNumeric ==
    \A j \in jobs :
        (Returned(j) /\ result[j].job_id # NoneId)
            => (Len(result[j].job_id) > 0 /\ IsDigits(result[j].job_id))

----------------------------------------------------------------------------
(* C8, C9 *)

\* The week of the claim's table
WeekOfDay(day) ==
    CASE day \in 1..7 -> 1
      [] day \in 8..14 -> 2
      [] day \in 15..21 -> 3
      [] day \in 22..28 -> 4
      [] day \in 29..31 -> 5

\* The week number at the end of a data file name "....w<week>"
EndsWithWeek(mfile, week) ==
    /\ Len(mfile) >= 2
    /\ mfile[Len(mfile) - 1] = "w"
    /\ mfile[Len(mfile)] = DigitChar(week)

\* C8: the data file name sent in step 3 ends with the week number of the
\* table: 1 for days 1-7, 2 for 8-14, 3 for 15-21, 4 for 22-28, 5 for 29-31.
C8_WeekNumberInMfile ==
    \A j \in jobs :
        Issued(j, 3) =>
            /\ params[j].start_day \in 1..31
            /\ EndsWithWeek(Request(j, 3).data.mfile,
                            WeekOfDay(params[j].start_day))

C8_Witness ==
    /\ Issued(1, 3)
    /\ params[1].start_day = 15
    /\ EndsWithWeek(Request(1, 3).data.mfile, 3)

DefaultDate(j) ==
    /\ params[j].start_year = 22
    /\ params[j].start_month = 10
    /\ params[j].start_day = 29
    /\ params[j].start_hour = 22

\* C9 as stated: for year 22, month 10, day 29, hour 22 the mfile of step 3
\* is "gdas1.oct22.w4".
C9_DefaultMfileWeek4 ==
    \A j \in jobs :
        (Issued(j, 3) /\ DefaultDate(j)) =>
            Request(j, 3).data.mfile =
                <<"g","d","a","s","1",".","o","c","t","2","2",".","w","4">>

\* C9 amended: for year 22, month 10, day 29, hour 22 the mfile of step 3 is
\* "gdas1.oct22.w5" (day 29 maps to week 5).
C9_DefaultMfileWeek5 ==
    \A j \in jobs :
        (Issued(j, 3) /\ DefaultDate(j)) =>
            Request(j, 3).data.mfile =
                <<"g","d","a","s","1",".","o","c","t","2","2",".","w","5">>

C9_Witness ==
    /\ Issued(1, 3)
    /\ DefaultDate(1)
    /\ Request(1, 3).data = [mfile |->
          <<"g","d","a","s","1",".","o","c","t","2","2",".","w","5">>]

----------------------------------------------------------------------------
(* C10 *)

\* A formatted coordinate carries no sign and is x's magnitude to the nearest
\* 1e-6 degree (x counts 1e-7 degrees)
MagnitudeOf(field, x) ==
    /\ ~field.neg
    /\ field.micro >= 0
    /\ Abs(10 * field.micro - Abs(x)) <= 5

\* A formatted coordinate carries x's sign and its magnitude
SignedValueOf(field, x) ==
    /\ field.neg <=> (x < 0)
    /\ Abs(10 * field.micro - Abs(x)) <= 5

\* C10: step 2 sends hemisphere "N" exactly when latitude >= 0 and "S"
\* otherwise, "E" exactly when longitude >= 0 and "W" otherwise, each with a
\* magnitude that is never negative; step 4 of the same job sends the signed
\* latitude and longitude.
C10_HemisphereSplit ==
    \A j \in jobs :
        /\ Issued(j, 2) =>
              LET d == Request(j, 2).data
              IN /\ d.Latns = (IF params[j].latitude >= 0 THEN "N" ELSE "S")
                 /\ d.Lonew = (IF params[j].longitude >= 0 THEN "E" ELSE "W")
                 /\ MagnitudeOf(d.Lat, params[j].latitude)
                 /\ MagnitudeOf(d.Lon, params[j].longitude)
        /\ Issued(j, 4) =>
              LET d == Request(j, 4).data
              IN /\ SignedValueOf(d.lat, params[j].latitude)
                 /\ SignedValueOf(d.lon, params[j].longitude)

C10_Witness ==
    /\ Issued(1, 4)
    /\ params[1].latitude < 0
    /\ params[1].longitude > 0
    /\ Request(1, 2).data.Latns = "S"
    /\ Request(1, 2).data.Lonew = "E"
    /\ Request(1, 4).data.lat.neg
    /\ ~Request(1, 4).data.lon.neg

----------------------------------------------------------------------------
(* Reading the state of download_results *)

DownloadReturned(j) == dpc[j] = "returned"

\* The call passed a usable identifier and session and went past the guard
DownloadRan(j) == dpc[j] \notin {"none", "skipped"} /\ Usable(args[j])

\* The destination file gis_<id>.zip of the call
Destination(j) == fs[download_filename(args[j].job_id)]

\* The destination as it was before the call
Before == IF existing THEN OldFile ELSE AbsentFile

\* A file holding exactly the payload
Complete(payload) == [exists |-> TRUE, data |-> payload]

GetIssued(j) == \E i \in 1..Len(events[j]) : events[j][i].ev = "get"

\* The GET ended without a response
GetTransportFailed(j) ==
    DownloadReturned(j) /\ GetIssued(j) /\ response[j] = NoResponse

GetAnswered(j) == GetIssued(j) /\ response[j] # NoResponse

----------------------------------------------------------------------------
(* C11 *)

\* C11: once download_results has returned, the destination file holds the
\* complete payload or is as it was before the call (not created): no
\* partially written file is left behind.
C11_NoPartialFile ==
    \A j \in jobs :
        (DownloadReturned(j) /\ DownloadRan(j)) =>
            \/ Destination(j) = Before
            \/ Destination(j) = Complete(response[j].payload)

----------------------------------------------------------------------------
(* C12 *)

UntouchedFailure(j) ==
    /\ DownloadReturned(j)
    /\ downloaded[j] = NonePath
    /\ Destination(j) = Before

\* C12 as stated: a retrieval GET that ends in a transport failure or a
\* non-2xx status makes download_results return None with the destination
\* file neither created nor modified.
C12_Non2xxLeavesFile ==
    \A j \in jobs :
        (/\ DownloadRan(j)
         /\ \/ GetTransportFailed(j)
            \/ GetAnswered(j) /\ ~(response[j].status \in 200..299))
        => UntouchedFailure(j)

\* C12 amended: a retrieval GET that ends in a transport failure or a 4xx/5xx
\* status makes download_results return None with the destination file
\* neither created nor modified.
C12_ErrorStatusLeavesFile ==
    \A j \in jobs :
        (/\ DownloadRan(j)
         /\ \/ GetTransportFailed(j)
            \/ GetAnswered(j) /\ response[j].status \in 400..599)
        => UntouchedFailure(j)

C12_Witness ==
    /\ DownloadRan(1)
    /\ GetAnswered(1)
    /\ response[1].status = 404
    /\ existing
    /\ Destination(1) = OldFile
    /\ downloaded[1] = NonePath

----------------------------------------------------------------------------
(* C13 *)

\* A request is out and the program blocks on its response
Awaiting(j) == pc[j] = "wait" \/ dpc[j] = "wait"

\* C13: every request of steps 1-4 and the retrieval GET comes to an end,
\* also when the remote service never answers it.
C13_RequestsEnd ==
    \A j \in JobIds : (j \in jobs /\ Awaiting(j)) ~> ~Awaiting(j)

----------------------------------------------------------------------------
(* C14 *)

\* A step of invocation j ended in a transport failure or an error status
StepFailed(j) ==
    \E i \in 1..Len(replies[j]) :
        replies[j][i][2] = 0 \/ replies[j][i][2] >= 400

\* C14: each of the four step endpoints receives at most one request in an
\* invocation, and after a failed step the invocation sends nothing further.
C14_NoRetry ==
    /\ [](\A j \in jobs : \A k \in 1..4 :
             Cardinality({i \in 1..Len(sent[j]) : sent[j][i].step = k}) <= 1)
    /\ [][\A j \in jobs :
             StepFailed(j) => (sent'[j] = sent[j] /\ events'[j] = events[j])]_vars

C14_Witness ==
    /\ StepFailed(1)
    /\ Answered(1, 3)
    /\ StatusOf(1, 3) = 500
    /\ SentSteps(1) = <<1, 2, 3>>
    /\ dpc[1] = "skipped"

----------------------------------------------------------------------------
(* C15 *)

\* C15: a call with a usable identifier and session first completes the
\* wait, then issues one GET on the session it was passed, for the URL of
\* the identifier, and issues no other GET, also when that GET fails.
C15_WaitThenOneGet ==
    \A j \in jobs :
        LET e == events[j]
        IN /\ Len(e) <= 2
           /\ Len(e) >= 1 => e[1].ev = "sleep"
           /\ Len(e) = 2 =>
                 /\ e[2].ev = "get"
                 /\ e[2].session = args[j].session
                 /\ e[2].url = download_url(args[j].job_id)
           /\ (DownloadReturned(j) /\ DownloadRan(j)) => Len(e) = 2

C15_Witness ==
    /\ DownloadReturned(1)
    /\ DownloadRan(1)
    /\ GetAnswered(1)
    /\ response[1].status = 404
    /\ Len(events[1]) = 2

----------------------------------------------------------------------------
(* C16 *)

\* What belongs to invocation j
Own(j) == <<pc[j], step[j], params[j], session[j], sent[j], replies[j],
            job_submission_response[j], result[j], printed[j]>>

\* C16: two invocations have different sessions, each sends its requests on
\* its own session only, and a step of one leaves what belongs to the other
\* unchanged.
C16_OwnSession ==
    /\ [](\A j \in jobs : \A k \in jobs \ {j} :
             /\ session[j] # NoneSession => session[j] # session[k]
             /\ \A i \in 1..Len(sent[j]) :
                   /\ sent[j][i].session = session[j]
                   /\ sent[j][i].session # session[k])
    /\ [][\A j \in jobs : \A k \in jobs \ {j} :
             Own(j)' # Own(j) => Own(k)' = Own(k)]_vars

C16_Witness ==
    /\ SentSteps(1) = <<1, 2, 3, 4>>
    /\ SentSteps(2) = <<1, 2, 3, 4>>
    /\ pc[1] = "wait"
    /\ pc[2] = "wait"
    /\ session[1] # session[2]

----------------------------------------------------------------------------
(* C17 *)

ExpectedContentType(ctype) ==
    ctype \in {"application/zip", "Application/Zip", "application/octet-stream"}

\* The call wrote the whole payload and returned the file name
DownloadSucceeded(j) ==
    /\ downloaded[j] = download_filename(args[j].job_id)
    /\ Destination(j) = Complete(response[j].payload)

\* C17: a 2xx response whose stream reaches its end is written to the
\* destination and the file name is returned whatever the content type is;
\* the content type decides the warning only.
C17_ContentTypeIrrelevant ==
    \A j \in jobs :
        (/\ DownloadReturned(j)
         /\ DownloadRan(j)
         /\ GetAnswered(j)
         /\ response[j].status \in 200..299
         /\ copied[j] = Len(response[j].payload))
        => /\ DownloadSucceeded(j)
           /\ warned[j] <=> ~ExpectedContentType(response[j].ctype)

C17_Witness ==
    /\ DownloadReturned(1)
    /\ response[1].status = 200
    /\ response[1].ctype = "text/html"
    /\ response[1].payload = Payload(2)
    /\ warned[1]
    /\ DownloadSucceeded(1)

----------------------------------------------------------------------------
(* C18 *)

\* C18: the returned tuple is (None, None), or an identifier together with
\* the session on which steps 1-4 were sent, after all four succeeded.
C18_ResultPairing ==
    \A j \in jobs :
        Returned(j) =>
            \/ result[j] = NoneNone
            \/ /\ result[j].job_id # NoneId
               /\ result[j].session # NoneSession
               /\ result[j].session = session[j]
               /\ SentSteps(j) = <<1, 2, 3, 4>>
               /\ \A k \in 1..4 :
                     Succeeded(j, k) /\ Request(j, k).session = result[j].session

C18_Witness ==
    /\ Returned(1)
    /\ result[1].job_id = <<"4", "2">>
    /\ result[1].session = session[1]
    /\ SentSteps(1) = <<1, 2, 3, 4>>

----------------------------------------------------------------------------
(* C19 *)

\* C19: a call with a missing identifier or session returns None at once:
\* no wait, no GET, and every file as it was.
C19_MissingArgsReturnAtOnce ==
    \A j \in jobs :
        (dpc[j] \notin {"none", "skipped"} /\ ~Usable(args[j])) =>
            /\ DownloadReturned(j)
            /\ downloaded[j] = NonePath
            /\ events[j] = <<>>
            /\ \A f \in FileNames : fs[f] = Before

C19_Witness ==
    /\ Failed(1)
    /\ DownloadReturned(1)
    /\ args[1] = NoneNone
    /\ downloaded[1] = NonePath
    /\ events[1] = <<>>

====
